---- MODULE Spec2Model ----
(***************************************************************************)
(* Vapi follow-up bot (server.js): the in-memory followUpQueue, the        *)
(* call-ended webhook handler that fills it, the cron dispatcher that      *)
(* sends due follow-ups, and the setTimeout callbacks that evict them.     *)
(*                                                                         *)
(* Node runs one callback at a time: an action of this module is one       *)
(* synchronous segment of the program, from the point where a callback is  *)
(* entered or resumed to its next `await` or its return.  Time is          *)
(* Date.now() in milliseconds, counted from the start of the process; a    *)
(* synchronous segment takes no time.                                      *)
(***************************************************************************)
EXTENDS Integers, Sequences, FiniteSets, TLC

\* ------------------------------------------------------------------ bounds
MaxEvents == 2        \* webhook requests received in one behaviour
MaxTicks == 2         \* cron callbacks that may be suspended at the same time
MaxHours == 26        \* horizon of the clock, in hours
MaxSendPeriods == 1   \* cron periods one outbound send may stay in flight
MaxTickRuns == 2      \* cron callbacks that find an entry due in one behaviour
MaxMessages == 2      \* messages of a call record put together for the extraction

\* --------------------------------------------------------- program constants
ONE_HOUR_MS == 60 * 60 * 1000
ONE_DAY_MS == 24 * 60 * 60 * 1000
\* the grace period taken for a day
GRACE_MS_Mutant == 24 * 60 * 60 * 1000
GRACE_MS == 60 * 60 * 1000
TICK_MS == 5 * 60 * 1000
NOTIFY_DELAY_MS == 1000
IMMEDIATE_DELAY_MS == 2000
\* the status of the routes' catch blocks
ERROR_STATUS == 500
MaxClock == MaxHours * ONE_HOUR_MS

CALENDAR_LINK == "https://calendly.com/your-link"
HABIB_CONTACT == "Habib at (424) 398-8546"

Undefined == "<undefined>"
Null == "<null>"

\* ------------------------------------------------------------- text helpers
UPPER == "ABCDEFGHIJKLMNOPQRSTUVWXYZ"
LOWER == "abcdefghijklmnopqrstuvwxyz"

CharAt(s, i) == SubSeq(s, i, i)

LetterIndex(alphabet, c) ==
    IF \E i \in 1..26 : CharAt(alphabet, i) = c
    THEN CHOOSE i \in 1..26 : CharAt(alphabet, i) = c
    ELSE 0

IsLetter(c) == LetterIndex(UPPER, c) > 0 \/ LetterIndex(LOWER, c) > 0

IsSpace(c) == c = " "

LowerChar(c) ==
    IF LetterIndex(UPPER, c) > 0 THEN CharAt(LOWER, LetterIndex(UPPER, c)) ELSE c

RECURSIVE toLowerCase(_)
toLowerCase(s) ==
    IF Len(s) = 0 THEN ""
    ELSE LowerChar(CharAt(s, 1)) \o toLowerCase(SubSeq(s, 2, Len(s)))

\* String.prototype.includes
includes(s, sub) ==
    \E i \in 1..(Len(s) - Len(sub) + 1) : SubSeq(s, i, i + Len(sub) - 1) = sub

\* `sub` occurs in `s` at position i, letters compared without case (the /i flag)
MatchesAtNoCase(s, i, sub) ==
    /\ i + Len(sub) - 1 <= Len(s)
    /\ toLowerCase(SubSeq(s, i, i + Len(sub) - 1)) = toLowerCase(sub)

RECURSIVE SkipWhile(_, _, _)
\* first position at or after i whose character is not of the class
SkipWhile(s, i, spaces) ==
    IF i > Len(s) THEN i
    ELSE IF (IF spaces THEN IsSpace(CharAt(s, i)) ELSE IsLetter(CharAt(s, i)))
         THEN SkipWhile(s, i + 1, spaces)
         ELSE i

NamePrefixes == <<"name is", "I'm", "this is">>

\* /(?:name is|I'm|this is)\s+([A-Z][a-z]+)/i at position i: 0, or the end of the
\* capture group
NameMatchAt(s, i, prefix) ==
    IF ~MatchesAtNoCase(s, i, prefix) THEN 0
    ELSE LET a == i + Len(prefix)
             b == SkipWhile(s, a, TRUE)
             c == SkipWhile(s, b, FALSE)
         IN  IF b > a /\ c >= b + 2 THEN c ELSE 0

\* transcript.match(...)[1], or Null when there is no match
nameMatch(transcript) ==
    LET hits == {i \in 1..Len(transcript) :
                    \E k \in 1..Len(NamePrefixes) :
                        NameMatchAt(transcript, i, NamePrefixes[k]) > 0}
    IN  IF hits = {} THEN Null
        ELSE LET i == CHOOSE x \in hits : \A y \in hits : x <= y
                 k == CHOOSE x \in 1..Len(NamePrefixes) :
                        /\ NameMatchAt(transcript, i, NamePrefixes[x]) > 0
                        /\ \A y \in 1..(x - 1) :
                              NameMatchAt(transcript, i, NamePrefixes[y]) = 0
                 c == NameMatchAt(transcript, i, NamePrefixes[k])
                 b == SkipWhile(transcript, i + Len(NamePrefixes[k]), TRUE)
             IN  SubSeq(transcript, b, c - 1)

businessTypes ==
    <<"barbershop", "salon", "restaurant", "med spa", "clinic", "gym", "shop", "store">>

painKeywords ==
    << <<"no-show", "appointment no-shows">>,
       <<"don't show", "appointment no-shows">>,
       <<"cancel", "cancellations">>,
       <<"booking", "booking management">>,
       <<"appointment", "appointment scheduling">>,
       <<"customer", "customer retention">>,
       <<"review", "getting reviews">>,
       <<"time", "time management">>,
       <<"phone", "phone calls">>,
       <<"follow up", "customer follow-up">> >>

RECURSIVE joinUserMessages(_)
\* messages.filter(m => m.role === 'user').map(m => m.message).join(' ')
joinUserMessages(messages) ==
    IF messages = << >> THEN << >>
    ELSE IF Head(messages).role = "user"
         THEN <<Head(messages).message>> \o joinUserMessages(Tail(messages))
         ELSE joinUserMessages(Tail(messages))

RECURSIVE join(_, _)
join(parts, sep) ==
    IF parts = << >> THEN ""
    ELSE IF Len(parts) = 1 THEN parts[1]
    ELSE parts[1] \o sep \o join(Tail(parts), sep)

RECURSIVE firstBusinessType(_, _)
firstBusinessType(text, k) ==
    IF k > Len(businessTypes) THEN Null
    ELSE IF includes(toLowerCase(text), businessTypes[k]) THEN businessTypes[k]
    ELSE firstBusinessType(text, k + 1)

RECURSIVE matchedPains(_, _)
\* the labels pushed by the loop over Object.entries(painKeywords)
matchedPains(text, k) ==
    IF k > Len(painKeywords) THEN << >>
    ELSE (IF includes(toLowerCase(text), painKeywords[k][1])
          THEN <<painKeywords[k][2]>> ELSE << >>) \o matchedPains(text, k + 1)

\* the list as it is
dedupe_Mutant(list, seen) == list

RECURSIVE dedupe(_, _)
\* [...new Set(list)]: first occurrences, in order
dedupe(list, seen) ==
    IF list = << >> THEN << >>
    ELSE IF Head(list) \in seen THEN dedupe(Tail(list), seen)
    ELSE <<Head(list)>> \o dedupe(Tail(list), seen \cup {Head(list)})

\* a falsy JavaScript value among those the payload fields take here
Falsy(v) == v = Undefined \/ v = Null \/ v = ""

\* String.prototype.slice(start) that reads a negative start from the front
slice_Mutant(s, start) ==
    LET a == IF start < 0 THEN -start ELSE start
    IN  SubSeq(s, (IF a > Len(s) THEN Len(s) ELSE a) + 1, Len(s))

\* String.prototype.slice(start): a negative start counts from the end
slice(s, start) ==
    LET from == IF start < 0
                THEN (IF Len(s) + start < 0 THEN 0 ELSE Len(s) + start)
                ELSE (IF start > Len(s) THEN Len(s) ELSE start)
    IN  SubSeq(s, from + 1, Len(s))

\* ------------------------------------------------------------ numbers, dates
\* a JavaScript number: NaN, or the integer v
NaN == [nan |-> TRUE, v |-> 0]
Num(v) == [nan |-> FALSE, v |-> v]

DIGITS == "0123456789"

DigitValue(c) ==
    IF \E i \in 1..10 : CharAt(DIGITS, i) = c
    THEN (CHOOSE i \in 1..10 : CharAt(DIGITS, i) = c) - 1
    ELSE -1

RECURSIVE Decimal(_)
\* the value of a string of decimal digits, or -1 for any other string
Decimal(s) ==
    IF Len(s) = 0 THEN -1
    ELSE LET d == DigitValue(CharAt(s, Len(s))) IN
         IF Len(s) = 1 THEN d
         ELSE LET r == Decimal(SubSeq(s, 1, Len(s) - 1)) IN
              IF d < 0 \/ r < 0 THEN -1 ELSE r * 10 + d

\* new Date(s).getTime() for the ISO-8601 forms 2024-01-0DTHH:MM:SSZ and
\* 2024-01-0DTHH:MM:SS.mmmZ, in milliseconds counted from 2024-01-01T00:00:00Z
\* (the instant the process starts at); NaN for a string of another form.  The
\* inputs are timestamps of the first days of January 2024, or not timestamps
DateParse(s) ==
    LET shape == /\ Len(s) \in {20, 24}
                 /\ SubSeq(s, 1, 9) = "2024-01-0"
                 /\ CharAt(s, 11) = "T" /\ CharAt(s, 14) = ":" /\ CharAt(s, 17) = ":"
                 /\ CharAt(s, Len(s)) = "Z"
                 /\ Len(s) = 24 => CharAt(s, 20) = "."
        day == Decimal(SubSeq(s, 10, 10))
        hh == Decimal(SubSeq(s, 12, 13))
        mm == Decimal(SubSeq(s, 15, 16))
        ss == Decimal(SubSeq(s, 18, 19))
        ms == IF Len(s) = 24 THEN Decimal(SubSeq(s, 21, 23)) ELSE 0
    IN  IF ~shape THEN NaN
        ELSE IF day < 1 \/ hh < 0 \/ hh > 23 \/ mm < 0 \/ mm > 59 \/ ss < 0 \/ ss > 59 \/ ms < 0
        THEN NaN
        ELSE Num((day - 1) * 24 * 60 * 60 * 1000 + hh * 60 * 60 * 1000 + mm * 60 * 1000
                 + ss * 1000 + ms)

\* the last decimal digit of n, as a character
Digit(n) == CharAt(DIGITS, (n % 10) + 1)

\* n in decimal, padded with zeros to two or three places
Pad(n, width) ==
    IF width = 2 THEN Digit(n \div 10) \o Digit(n)
    ELSE Digit(n \div 100) \o Digit(n \div 10) \o Digit(n)

\* new Date(t).toISOString(), t in milliseconds counted from 2024-01-01T00:00:00Z
toISOString(t) ==
    "2024-01-" \o Pad((t \div (24 * 60 * 60 * 1000)) + 1, 2)
    \o "T" \o Pad((t \div (60 * 60 * 1000)) % 24, 2)
    \o ":" \o Pad((t \div (60 * 1000)) % 60, 2)
    \o ":" \o Pad((t \div 1000) % 60, 2)
    \o "." \o Pad(t % 1000, 3) \o "Z"

\* a - b on numbers
Minus(a, b) == IF a.nan \/ b.nan THEN NaN ELSE Num(a.v - b.v)

\* Math.round(x / 1000): to the nearest integer, a half goes up
roundSeconds(x) == IF x.nan THEN NaN ELSE Num((x.v + 500) \div 1000)

\* vapiPayload.endedAt && vapiPayload.startedAt ? Math.round((new Date(endedAt) -
\* new Date(startedAt)) / 1000) : 0
duration(vapiPayload) ==
    IF ~Falsy(vapiPayload.endedAt) /\ ~Falsy(vapiPayload.startedAt)
    THEN roundSeconds(Minus(DateParse(vapiPayload.endedAt), DateParse(vapiPayload.startedAt)))
    ELSE Num(0)

parseCallData(vapiPayload) ==
    LET transcript == IF Falsy(vapiPayload.transcript) THEN "" ELSE vapiPayload.transcript
        messages == vapiPayload.messages
        fullUserText == join(joinUserMessages(messages), " ")
    IN  [name |-> nameMatch(transcript),
         phone |-> IF Falsy(vapiPayload.number) THEN Null ELSE vapiPayload.number,
         businessType |-> firstBusinessType(fullUserText, 1),
         painPoints |-> dedupe(matchedPains(fullUserText, 1), {}),
         duration |-> duration(vapiPayload),
         transcript |-> transcript,
         callId |-> vapiPayload.id]

\* a value interpolated into a template literal.  The templates below keep the
\* source's wording; its line breaks are written as spaces and its emoji left out
Str(v) == IF v = Undefined THEN "undefined" ELSE IF v = Null THEN "null" ELSE v

getOneHourFollowUp(info) ==
    LET greeting == IF ~Falsy(info.name) THEN info.name ELSE "Hey"
    IN  greeting \o ", just following up! Did you get a chance to think about our chat? "
        \o "If you want to hop on a quick call to map out a solution for your "
        \o (IF ~Falsy(info.businessType) THEN info.businessType ELSE "business")
        \o ", book here: " \o CALENDAR_LINK
        \o " No pressure - just want to make sure you don't lose out on potential revenue while you wait"

get24HourFollowUp(info) ==
    LET greeting == IF ~Falsy(info.name) THEN "Hey " \o info.name ELSE "Hey"
        painMention == IF Len(info.painPoints) > 0
                       THEN " - especially the " \o info.painPoints[1] \o " issue"
                       ELSE ""
    IN  greeting \o ", I know running a "
        \o (IF ~Falsy(info.businessType) THEN info.businessType ELSE "business")
        \o " keeps you crazy busy. If now isn't the right time" \o painMention
        \o ", no worries. But if you want to see how we could solve this, I'm here. "
        \o "Just reply \"interested\" and I'll send over some quick examples from similar businesses. - Habib"

\* ------------------------------------------------------------------ inputs
\* a request: the route it is posted to and the fields of its body the program
\* reads (message.type, message.status, endedAt, startedAt, id, customer.number,
\* call.customer.number, transcript, messages); Undefined for a field left out
Request(route, type, status, startedAt, endedAt, id, number, callNumber, transcript, messages) ==
    [route |-> route, type |-> type, status |-> status, startedAt |-> startedAt,
     endedAt |-> endedAt, id |-> id, number |-> number, callNumber |-> callNumber,
     transcript |-> transcript, messages |-> messages]

\* requests whose body carries the id of the call
IdentifiedPayloads ==
    << Request("/vapi/webhook", "end-of-call-report", Undefined,
               "2024-01-01T00:00:00Z", "2024-01-01T00:05:00Z",
               "call-42", "+15551234567", Undefined,
               "Hi this is Maria, we run a salon and keep getting no-shows",
               << [role |-> "user", message |-> "we keep getting no-shows"] >>),
       Request("/vapi/call-ended", Undefined, Undefined,
               "2024-01-01T00:55:00.000Z", "2024-01-01T00:59:59.500Z",
               "call-42", "+15551234567", Undefined,
               "my name is Sam",
               << [role |-> "assistant", message |-> "What do you run?"],
                  [role |-> "user", message |-> "A Barbershop."],
                  [role |-> "user", message |-> "appointments keep getting cancelled"] >>),
       Request("/vapi/webhook", "status-update", "ended",
               Undefined, "2024-01-01T00:05:00Z",
               "call-42", Undefined, "+15551234567",
               Undefined, << >>),
       Request("/vapi/webhook", "end-of-call-report", Undefined,
               Undefined, Undefined,
               "call-7", "+15557654321", Undefined,
               "", << [role |-> "user", message |-> "I need more reviews"] >>),
       Request("/vapi/webhook", "status-update", "in-progress",
               "2024-01-01T00:00:00Z", Undefined,
               "call-42", Undefined, "+15551234567",
               Undefined, << >>),
       Request("/vapi/webhook", "status-update", "in-progress",
               Undefined, Undefined,
               "call-7", "+15557654321", Undefined,
               Undefined, << >>),
       Request("/vapi/webhook", "status-update", "ringing",
               Undefined, Undefined,
               "call-42", "+15551234567", "+15551234567",
               Undefined, << >>) >>

\* the end-of-call reports of two calls, of two customers, whose body has no id
\* field at its top level
AnonymousPayloads ==
    << Request("/vapi/webhook", "end-of-call-report", Undefined,
               Undefined, Undefined,
               Undefined, "+15551234567", Undefined,
               "this is Ana",
               << [role |-> "user", message |-> "too many no-shows"] >>),
       Request("/vapi/webhook", "end-of-call-report", Undefined,
               Undefined, Undefined,
               Undefined, "+15557654321", Undefined,
               "I'm Ben",
               << [role |-> "user", message |-> "I want more reviews"] >>) >>

Payloads == IdentifiedPayloads \o AnonymousPayloads

PayloadIds == 1..Len(IdentifiedPayloads)
AnonymousIds == (Len(IdentifiedPayloads) + 1)..Len(Payloads)

\* parseCallData of every input, evaluated once
CallInfo == [p \in 1..Len(Payloads) |-> parseCallData(Payloads[p])]

\* ------------------------------------------------------------------- state
VARIABLES
    clock,        \* Date.now()
    queue,        \* followUpQueue: the Map's entries in insertion order
    ticks,        \* activations of the cron callback: suspended at the await, or idle
    lastTick,     \* the cron boundary whose callback has been started last
    timers,       \* pending setTimeout callbacks
    pending,      \* requests suspended at `await logCall(...)`
    nEvents,      \* requests received so far
    tickRuns,     \* cron callbacks that have found an entry due so far
    res,          \* the last response sent
    notifyHabib,  \* process.env.NOTIFY_HABIB_PHONE
    oneOff,       \* one-off sends attempted: calendar links, notifications to the operator
    objs,         \* history: one record per follow-up object ever created
    raw,          \* a call record being put together for parseCallData
    insight       \* what parseCallData has returned for it

\* the variables of the extraction on its own
extractVars == <<raw, insight>>

vars == <<clock, queue, ticks, lastTick, timers, pending, nEvents, tickRuns, res, notifyHabib,
          oneOff, objs, raw, insight>>

NoEntry == [key |-> "", id |-> 0, phone |-> "", message |-> "", scheduledFor |-> 0, sent |-> FALSE]
IdleTick == [pc |-> "idle", now |-> 0, next |-> 0, cur |-> NoEntry, waited |-> 0]
NoResponse == [status |-> 0, success |-> FALSE, message |-> "", scheduledCount |-> 0]
NoRecord == Request("/vapi/call-ended", Undefined, Undefined, Undefined, Undefined,
                    "call-1", Undefined, Undefined, Undefined, << >>)

Init ==
    /\ clock = 0
    /\ queue = << >>
    /\ ticks = [t \in 1..MaxTicks |-> IdleTick]
    /\ lastTick = -1
    /\ timers = {}
    /\ pending = {}
    /\ nEvents = 0
    /\ tickRuns = 0
    /\ res = NoResponse
    /\ notifyHabib \in {Undefined, "+13109515542"}
    /\ oneOff = [immediate |-> 0, notify |-> 0]
    /\ objs = << >>
    /\ raw = NoRecord
    /\ insight = << >>

\* ------------------------------------------------------- the Map operations
Keys(q) == {q[i].key : i \in 1..Len(q)}

IndexOfKey(q, k) ==
    IF k \in Keys(q) THEN CHOOSE i \in 1..Len(q) : q[i].key = k ELSE 0

\* followUpQueue.get(k), for a key that is present
Get(q, k) == q[IndexOfKey(q, k)]

\* set that appends even when the key is present
MapSet_Mutant(q, k, obj) == Append(q, obj)

\* followUpQueue.set(k, obj): a present key keeps its place in the iteration
\* order and gets the new object, a new key goes to the end
MapSet(q, k, obj) ==
    IF k \in Keys(q)
    THEN [q EXCEPT ![IndexOfKey(q, k)] = obj]
    ELSE Append(q, obj)

\* followUpQueue.delete(k)
MapDelete(q, k) ==
    IF k \in Keys(q)
    THEN SubSeq(q, 1, IndexOfKey(q, k) - 1) \o SubSeq(q, IndexOfKey(q, k) + 1, Len(q))
    ELSE q

\* where a suspended iterator stands after delete(k): `next` is the position of
\* the first entry it has not visited yet
IteratorAfterDelete(q, k, next) ==
    IF k \in Keys(q) /\ IndexOfKey(q, k) < next THEN next - 1 ELSE next

\* a mark set through the key: followUpQueue.get(key).sent = true
MarkSent_Mutant(q, id) ==
    [i \in 1..Len(q) |-> IF q[i].key = objs[id].key THEN [q[i] EXCEPT !.sent = TRUE] ELSE q[i]]

\* followUp.sent = true, on the object a tick holds: the Map shows it only while
\* that object is still the one stored under its key
MarkSent(q, id) ==
    [i \in 1..Len(q) |-> IF q[i].id = id THEN [q[i] EXCEPT !.sent = TRUE] ELSE q[i]]

\* GET /queue: Array.from(followUpQueue.entries()).map(...), the body of the answer
queueSnapshot(q) ==
    [i \in 1..Len(q) |->
        [id |-> q[i].key,
         phone |-> slice(q[i].phone, -4),
         scheduledFor |-> toISOString(q[i].scheduledFor),
         sent |-> q[i].sent]]

\* ------------------------------------------------------------ handleCallEnded
oneHourKey(callInfo) == Str(callInfo.callId) \o "-1h"
oneDayKey(callInfo) == Str(callInfo.callId) \o "-24h"

\* the 24-hour delay with a factor of 60 lost
oneDayDelay_Mutant == 24 * 60 * 1000

oneHourDelay == ONE_HOUR_MS
oneDayDelay == ONE_DAY_MS

\* history of a follow-up object: what it replaced under its key ("none", "pending"
\* or "sent"), when it was first marked sent (-1: never), how many sends of it
\* succeeded, and whether a send of it failed
NewObj(q, key) ==
    [key |-> key,
     replaced |-> IF key \notin Keys(q) THEN "none"
                  ELSE IF Get(q, key).sent THEN "sent" ELSE "pending",
     sentAt |-> -1, ok |-> 0, failed |-> FALSE]

\* what the route does with a request.  /vapi/call-ended hands every body to
\* handleCallEnded; /vapi/webhook tests for the start of a call first, then for
\* its end

\* a classification that takes every event that is not a call start for a call end
Classify_Mutant(vapiPayload) ==
    IF vapiPayload.route = "/vapi/webhook"
       /\ vapiPayload.type = "status-update" /\ vapiPayload.status = "in-progress"
    THEN "call-started"
    ELSE "call-ended"

Classify(vapiPayload) ==
    IF vapiPayload.route = "/vapi/call-ended" THEN "call-ended"
    ELSE IF vapiPayload.type = "status-update" /\ vapiPayload.status = "in-progress"
    THEN "call-started"
    ELSE IF vapiPayload.type = "end-of-call-report" \/ ~Falsy(vapiPayload.endedAt)
    THEN "call-ended"
    ELSE "unknown"

\* the test without a look at the number
HasCallerPhone_Mutant(vapiPayload) == TRUE

\* the test `if (callerPhone)` on vapiPayload.call?.customer?.number
HasCallerPhone(vapiPayload) == ~Falsy(vapiPayload.callNumber)

\* the timer of the call-start branch; n tells the setTimeout calls apart
ImmediateTimer(callerPhone, now, n) ==
    [kind |-> "immediate", key |-> callerPhone, at |-> now + IMMEDIATE_DELAY_MS, seq |-> n]

\* a request is received and its route runs to its first `await`, or to its
\* return: the call-start branch arms the one-off send and answers, a call end
\* enters handleCallEnded and is suspended at `await logCall(...)`, any other
\* event is answered.  (One request per input is followed at a time.)
Receive(p) ==
    /\ nEvents < MaxEvents
    /\ p \notin pending
    /\ nEvents' = nEvents + 1
    /\ LET vapiPayload == Payloads[p] IN
       CASE Classify(vapiPayload) = "call-started" ->
                /\ timers' = IF HasCallerPhone(vapiPayload)
                              THEN timers \cup {ImmediateTimer(vapiPayload.callNumber, clock, nEvents + 1)}
                              ELSE timers
                /\ res' = [status |-> 200, success |-> TRUE,
                           message |-> "Call started - SMS queued", scheduledCount |-> 0]
                /\ UNCHANGED pending
         [] Classify(vapiPayload) = "call-ended" ->
                /\ pending' = pending \cup {p}
                /\ UNCHANGED <<timers, res>>
         [] OTHER ->
                /\ res' = [status |-> 200, success |-> TRUE,
                           message |-> "Event received", scheduledCount |-> 0]
                /\ UNCHANGED <<timers, pending>>
    /\ UNCHANGED <<clock, queue, ticks, lastTick, tickRuns, notifyHabib, oneOff, objs, extractVars>>

\* the handler without its early return
HasPhone_Mutant(callInfo) == TRUE

\* the test `if (!callInfo.phone)`, negated
HasPhone(callInfo) == ~Falsy(callInfo.phone)

\* the first followUpQueue.set call alone: what the queue would show if the handler
\* gave up control between the two calls
Enqueue_Mutant(q, callInfo, now, id) ==
    MapSet(q, oneHourKey(callInfo),
           [key |-> oneHourKey(callInfo), id |-> id,
            phone |-> callInfo.phone, message |-> getOneHourFollowUp(callInfo),
            scheduledFor |-> now + oneHourDelay, sent |-> FALSE])

\* the two followUpQueue.set calls
Enqueue(q, callInfo, now, id) ==
    MapSet(MapSet(q, oneHourKey(callInfo),
                  [key |-> oneHourKey(callInfo), id |-> id,
                   phone |-> callInfo.phone, message |-> getOneHourFollowUp(callInfo),
                   scheduledFor |-> now + oneHourDelay, sent |-> FALSE]),
           oneDayKey(callInfo),
           [key |-> oneDayKey(callInfo), id |-> id + 1,
            phone |-> callInfo.phone, message |-> get24HourFollowUp(callInfo),
            scheduledFor |-> now + oneDayDelay, sent |-> FALSE])

\* the timer of the operator's notification; n tells the setTimeout calls apart
NotifyTimer(to, now, n) ==
    [kind |-> "notify", key |-> to, at |-> now + NOTIFY_DELAY_MS, seq |-> n]

\* logCall has resolved: the rest of handleCallEnded, to its return
HandleCallEnded(p) ==
    /\ p \in pending
    /\ pending' = pending \ {p}
    /\ LET callInfo == CallInfo[p] IN
       IF ~HasPhone(callInfo)
       THEN /\ res' = [status |-> 200, success |-> TRUE,
                       message |-> "No phone number to follow up with", scheduledCount |-> 0]
            /\ UNCHANGED <<queue, timers, objs>>
       ELSE /\ queue' = Enqueue(queue, callInfo, clock, Len(objs) + 1)
            /\ objs' = objs \o <<NewObj(queue, oneHourKey(callInfo)),
                                 NewObj(queue, oneDayKey(callInfo))>>
            /\ timers' = IF Falsy(notifyHabib) THEN timers
                         ELSE timers \cup {NotifyTimer(notifyHabib, clock, Len(objs) + 1)}
            /\ res' = [status |-> 200, success |-> TRUE,
                       message |-> "Follow-ups scheduled", scheduledCount |-> 2]
    /\ UNCHANGED <<clock, ticks, lastTick, nEvents, tickRuns, notifyHabib, oneOff, extractVars>>

\* a handler that records the call after it has scheduled the 1-hour follow-up
LogCallFailed_Mutant(p) ==
    /\ p \in pending
    /\ pending' = pending \ {p}
    /\ LET callInfo == CallInfo[p] IN
       /\ queue' = MapSet(queue, oneHourKey(callInfo),
                          [key |-> oneHourKey(callInfo), id |-> Len(objs) + 1,
                           phone |-> callInfo.phone, message |-> getOneHourFollowUp(callInfo),
                           scheduledFor |-> clock + oneHourDelay, sent |-> FALSE])
       /\ objs' = Append(objs, NewObj(queue, oneHourKey(callInfo)))
    /\ res' = [status |-> ERROR_STATUS, success |-> FALSE, message |-> "logCall error",
               scheduledCount |-> 0]
    /\ UNCHANGED <<clock, ticks, lastTick, timers, nEvents, tickRuns, notifyHabib, oneOff,
                   extractVars>>

\* logCall has rejected: the exception leaves handleCallEnded and is caught by the
\* route's try/catch
LogCallFailed(p) ==
    /\ p \in pending
    /\ pending' = pending \ {p}
    /\ res' = [status |-> ERROR_STATUS, success |-> FALSE, message |-> "logCall error",
               scheduledCount |-> 0]
    /\ UNCHANGED <<clock, queue, ticks, lastTick, timers, nEvents, tickRuns, notifyHabib, oneOff,
                   objs, extractVars>>

\* ------------------------------------------------------------ the cron callback
\* the test without the comparison of times
IsDue_MutantNoTime(followUp, now) == ~followUp.sent

\* the test without the sent flag
IsDue_MutantNoSent(followUp, now) == now >= followUp.scheduledFor

\* the test of the loop body: !followUp.sent && now >= followUp.scheduledFor
IsDue(followUp, now) == ~followUp.sent /\ now >= followUp.scheduledFor

\* the iterator runs on from position `from` to the first entry that passes the
\* test: its position, or Len(q) + 1 when the loop ends
NextDue(q, from, now) ==
    IF \E j \in from..Len(q) : IsDue(q[j], now)
    THEN CHOOSE j \in from..Len(q) : IsDue(q[j], now) /\ \A i \in from..(j - 1) : ~IsDue(q[i], now)
    ELSE Len(q) + 1

\* the loop from position `from`: suspended at `await sendSMS(...)` for the next
\* due entry, or finished
RunLoop(q, from, now) ==
    LET j == NextDue(q, from, now) IN
    IF j > Len(q) THEN IdleTick
    ELSE [pc |-> "await", now |-> now, next |-> j + 1, cur |-> q[j], waited |-> 0]

Active(t) == ticks[t].pc = "await"

\* the cron boundary is reached and the callback starts.  A callback that finds
\* no entry due runs through the loop and changes nothing: it is a stuttering step
TickStart(t) ==
    /\ ~Active(t)
    /\ \A u \in 1..(t - 1) : Active(u)
    /\ clock % TICK_MS = 0
    /\ lastTick < clock
    /\ RunLoop(queue, 1, clock) # IdleTick
    /\ tickRuns < MaxTickRuns
    /\ lastTick' = clock
    /\ tickRuns' = tickRuns + 1
    /\ ticks' = [ticks EXCEPT ![t] = RunLoop(queue, 1, clock)]
    /\ UNCHANGED <<clock, queue, timers, pending, nEvents, res, notifyHabib, oneOff, objs, extractVars>>

\* the timer the tick arms after a send that succeeded
EvictionTimer(key, now) == [kind |-> "evict", key |-> key, at |-> now + GRACE_MS, seq |-> 0]

\* sendSMS resolved: mark, arm the eviction, and run the loop on
SendSucceeded(t) ==
    /\ Active(t)
    /\ LET cur == ticks[t].cur IN
       /\ queue' = MarkSent(queue, cur.id)
       /\ timers' = timers \cup {EvictionTimer(cur.key, clock)}
       /\ objs' = [objs EXCEPT ![cur.id] =
                      [@ EXCEPT !.ok = @ + 1,
                                !.sentAt = IF objs[cur.id].sentAt < 0 THEN clock ELSE @]]
       /\ ticks' = [ticks EXCEPT ![t] = RunLoop(queue', ticks[t].next, ticks[t].now)]
    /\ UNCHANGED <<clock, lastTick, pending, nEvents, tickRuns, res, notifyHabib, oneOff, extractVars>>

\* sendSMS rejected: the catch logs, and the loop runs on
SendFailed(t) ==
    /\ Active(t)
    /\ objs' = [objs EXCEPT ![ticks[t].cur.id].failed = TRUE]
    /\ ticks' = [ticks EXCEPT ![t] = RunLoop(queue, ticks[t].next, ticks[t].now)]
    /\ UNCHANGED <<clock, queue, lastTick, timers, pending, nEvents, tickRuns, res, notifyHabib,
                   oneOff, extractVars>>

\* ------------------------------------------------------------------- timers
Due(tm) == tm.at <= clock

\* setTimeout(() => followUpQueue.delete(key), 60 * 60 * 1000) fires
EvictFire(tm) ==
    /\ tm \in timers /\ tm.kind = "evict" /\ Due(tm)
    /\ timers' = timers \ {tm}
    /\ queue' = MapDelete(queue, tm.key)
    /\ ticks' = [t \in 1..MaxTicks |->
                    IF Active(t)
                    THEN [ticks[t] EXCEPT !.next = IteratorAfterDelete(queue, tm.key, @)]
                    ELSE ticks[t]]
    /\ UNCHANGED <<clock, lastTick, pending, nEvents, tickRuns, res, notifyHabib, oneOff, objs,
                   extractVars>>

\* setTimeout(() => sendSMS(notifyHabib, summary).catch(...), 1000) fires: the send
\* is attempted; whether it resolves or rejects, nothing but the log shows it
NotifyFire(tm) ==
    /\ tm \in timers /\ tm.kind = "notify" /\ Due(tm)
    /\ timers' = timers \ {tm}
    /\ oneOff' = [oneOff EXCEPT !.notify = @ + 1]
    /\ UNCHANGED <<clock, queue, ticks, lastTick, pending, nEvents, tickRuns, res, notifyHabib,
                   objs, extractVars>>

\* setTimeout(() => sendSMS(callerPhone, message).catch(...), 2000) fires, likewise
ImmediateFire(tm) ==
    /\ tm \in timers /\ tm.kind = "immediate" /\ Due(tm)
    /\ timers' = timers \ {tm}
    /\ oneOff' = [oneOff EXCEPT !.immediate = @ + 1]
    /\ UNCHANGED <<clock, queue, ticks, lastTick, pending, nEvents, tickRuns, res, notifyHabib,
                   objs, extractVars>>

\* -------------------------------------------------------------------- time
Min(S) == CHOOSE x \in S : \A y \in S : x <= y

Max2(a, b) == IF a >= b THEN a ELSE b

\* the first cron boundary at or after time t
BoundaryAtOrAfter(t) == ((t + TICK_MS - 1) \div TICK_MS) * TICK_MS

\* the cron callback of the boundary the clock stands on has still to start
TickIsDue ==
    /\ clock % TICK_MS = 0
    /\ lastTick < clock
    /\ \E i \in 1..Len(queue) : ~queue[i].sent /\ clock >= queue[i].scheduledFor

\* the instants at which something happens next: a timer falls due, the cron
\* callback finds an unsent entry due, or a cron boundary passes with a send in
\* flight.  At the boundaries in between the callback finds nothing to do.
NextInstants ==
    {tm.at : tm \in timers}
    \cup {Max2(BoundaryAtOrAfter(queue[i].scheduledFor), BoundaryAtOrAfter(clock + 1)) :
             i \in {j \in 1..Len(queue) : ~queue[j].sent}}
    \cup (IF \E t \in 1..MaxTicks : Active(t) THEN {BoundaryAtOrAfter(clock + 1)} ELSE {})

\* time passes to the next such instant, once every timer and cron callback of the
\* present instant has run
Advance ==
    /\ NextInstants # {}
    /\ \A tm \in timers : ~Due(tm)
    /\ ~TickIsDue
    /\ Min(NextInstants) <= MaxClock
    /\ \A u \in 1..MaxTicks : Active(u) => ticks[u].waited < MaxSendPeriods
    /\ clock' = Min(NextInstants)
    /\ ticks' = [u \in 1..MaxTicks |->
                    IF Active(u) THEN [ticks[u] EXCEPT !.waited = @ + 1] ELSE ticks[u]]
    /\ UNCHANGED <<queue, lastTick, timers, pending, nEvents, tickRuns, res, notifyHabib, oneOff,
                   objs, extractVars>>

Next ==
    \/ \E p \in PayloadIds : Receive(p)
    \/ \E p \in PayloadIds : HandleCallEnded(p)
    \/ \E p \in PayloadIds : LogCallFailed(p)
    \/ \E t \in 1..MaxTicks : TickStart(t)
    \/ \E t \in 1..MaxTicks : SendSucceeded(t)
    \/ \E t \in 1..MaxTicks : SendFailed(t)
    \/ \E tm \in timers : EvictFire(tm)
    \/ \E tm \in timers : NotifyFire(tm)
    \/ \E tm \in timers : ImmediateFire(tm)
    \/ Advance

Spec == Init /\ [][Next]_vars

\* ------------------------------------------------ stretches of rejected sends
\* A cron callback whose sends are all rejected leaves the queue and the timers as
\* they were (the catch branch logs and the loop goes on).  While sends keep being
\* rejected, every callback from the boundary the clock stands on up to the next
\* instant at which something else happens (a timer falls due, another entry falls
\* due) does just that: the stretch is taken in one step, so that the model follows
\* an entry over the hours in which it cannot be delivered
FailedTicks ==
    /\ TickIsDue
    /\ \A t \in 1..MaxTicks : ~Active(t)
    /\ \A tm \in timers : ~Due(tm)
    /\ LET later == {tm.at : tm \in timers}
                     \cup {BoundaryAtOrAfter(queue[i].scheduledFor) :
                              i \in {j \in 1..Len(queue) :
                                        ~queue[j].sent /\ queue[j].scheduledFor > clock}}
       IN  /\ later # {}
           /\ Min(later) <= MaxClock
           /\ clock' = Min(later)
           /\ lastTick' = BoundaryAtOrAfter(Min(later)) - TICK_MS
    /\ objs' = [id \in 1..Len(objs) |->
                   IF \E i \in 1..Len(queue) : queue[i].id = id /\ IsDue(queue[i], clock)
                   THEN [objs[id] EXCEPT !.failed = TRUE]
                   ELSE objs[id]]
    /\ UNCHANGED <<queue, ticks, timers, pending, nEvents, tickRuns, res, notifyHabib, oneOff,
                   extractVars>>

NextWithOutage ==
    \/ Next
    \/ FailedTicks

SpecWithOutage == Init /\ [][NextWithOutage]_vars

\* --------------------------------------------- calls whose request has no id
\* the server as above, receiving the requests that carry no id
NextAnonymous ==
    \/ \E p \in AnonymousIds : Receive(p)
    \/ \E p \in AnonymousIds : HandleCallEnded(p)
    \/ \E p \in AnonymousIds : LogCallFailed(p)
    \/ \E t \in 1..MaxTicks : TickStart(t)
    \/ \E t \in 1..MaxTicks : SendSucceeded(t)
    \/ \E t \in 1..MaxTicks : SendFailed(t)
    \/ \E tm \in timers : EvictFire(tm)
    \/ \E tm \in timers : NotifyFire(tm)
    \/ Advance

SpecAnonymous == Init /\ [][NextAnonymous]_vars

\* ------------------------------------------------- the extraction on its own
\* parseCallData is a function of the call record alone.  To check it over more
\* records than the requests above carry, a record is put together turn by turn
\* and timestamp by timestamp, and parseCallData is applied to it
serverVars == <<clock, queue, ticks, lastTick, timers, pending, nEvents, tickRuns, res,
                notifyHabib, oneOff, objs>>

Turns ==
    { [role |-> "user", message |-> "clients don't show, and no-shows cost us"],
      [role |-> "user", message |-> "appointments keep getting cancelled"],
      [role |-> "user", message |-> "CANCEL my Booking, I have no time to follow"],
      [role |-> "user", message |-> "up with every customer by phone"],
      [role |-> "assistant", message |-> "Do customers leave a review?"] }

Timestamps ==
    { Undefined, "yesterday", "2024-01-01T00:00:00Z", "2024-01-01T00:05:00Z",
      "2024-01-01T00:05:01.500Z" }

AddMessage(m) ==
    /\ insight = << >>
    /\ Len(raw.messages) < MaxMessages
    /\ raw' = [raw EXCEPT !.messages = Append(@, m)]
    /\ UNCHANGED <<insight, serverVars>>

SetTimestamps(startedAt, endedAt) ==
    /\ insight = << >>
    /\ raw.startedAt = Undefined /\ raw.endedAt = Undefined
    /\ raw' = [raw EXCEPT !.startedAt = startedAt, !.endedAt = endedAt]
    /\ UNCHANGED <<insight, serverVars>>

Extract ==
    /\ insight = << >>
    /\ insight' = <<parseCallData(raw)>>
    /\ UNCHANGED <<raw, serverVars>>

InitExtract == Init /\ notifyHabib = Undefined

NextExtract ==
    \/ \E m \in Turns : AddMessage(m)
    \/ \E startedAt, endedAt \in Timestamps : SetTimestamps(startedAt, endedAt)
    \/ Extract

SpecExtract == InitExtract /\ [][NextExtract]_vars

\* ------------------------------------------------------------ the claims
InQueue(id) == \E i \in 1..Len(queue) : queue[i].id = id
InFlight(id) == \E t \in 1..MaxTicks : Active(t) /\ ticks[t].cur.id = id

\* a later call-ended event has written the key of object id again
Overwritten(id) == \E j \in (id + 1)..Len(objs) : objs[j].key = objs[id].key

\* the positions of q that hold key k
PositionsOf(q, k) == {i \in 1..Len(q) : q[i].key = k}

\* the positions of q whose key starts with prefix
PositionsWithPrefix(q, prefix) ==
    {i \in 1..Len(q) : Len(q[i].key) >= Len(prefix) /\ SubSeq(q[i].key, 1, Len(prefix)) = prefix}

\* C1: a call-ended event with a customer number leaves exactly two entries of its
\* call in the queue, <callId>-1h and <callId>-24h, both unsent, addressed to that
\* number, due 3600 s and 86400 s after the handler ran, and answers scheduledCount 2
C1_TwoFollowUpsScheduled ==
    [][\A p \in PayloadIds :
          (HandleCallEnded(p) /\ Payloads[p].number # Undefined) =>
              LET id == Str(Payloads[p].id)
                  mine == PositionsWithPrefix(queue', id \o "-")
              IN  /\ Cardinality(mine) = 2
                  /\ \E i, j \in mine :
                        /\ queue'[i].key = id \o "-1h"
                        /\ queue'[j].key = id \o "-24h"
                        /\ queue'[i].scheduledFor = clock + 3600 * 1000
                        /\ queue'[j].scheduledFor = clock + 86400 * 1000
                        /\ ~queue'[i].sent /\ ~queue'[j].sent
                        /\ queue'[i].phone = Payloads[p].number
                        /\ queue'[j].phone = Payloads[p].number
                  /\ res'.status = 200 /\ res'.success /\ res'.scheduledCount = 2]_vars

C1_Witness ==
    /\ res.scheduledCount = 2
    /\ \E i, j \in 1..Len(queue) :
          /\ queue[i].key = "call-42-1h" /\ queue[j].key = "call-42-24h"
          /\ ~queue[i].sent /\ ~queue[j].sent
          /\ queue[i].scheduledFor = clock + 3600 * 1000
          /\ queue[j].scheduledFor = clock + 86400 * 1000

\* C2: a call-ended event without a customer number leaves followUpQueue exactly as
\* it was and answers success with "No phone number to follow up with"
C2_NoPhoneNoFollowUp ==
    [][\A p \in PayloadIds :
          (HandleCallEnded(p) /\ Payloads[p].number = Undefined) =>
              /\ queue' = queue
              /\ res' = [status |-> 200, success |-> TRUE,
                         message |-> "No phone number to follow up with",
                         scheduledCount |-> 0]]_vars

C2_Witness ==
    /\ res.message = "No phone number to follow up with"
    /\ queue # << >>

\* C3: an entry the dispatcher is sending was unsent when the tick picked it and its
\* due time is not later than the time the tick read, which is not later than the
\* present: no follow-up is sent before its scheduledFor, also with entries enqueued
\* or overwritten while the tick is suspended
C3_SendsOnlyDueUnsent ==
    \A t \in 1..MaxTicks :
        Active(t) =>
            /\ ~ticks[t].cur.sent
            /\ ticks[t].cur.scheduledFor <= ticks[t].now
            /\ ticks[t].now <= clock

\* a tick is suspended on an entry whose key has been overwritten meanwhile by an
\* entry that is not due yet
C3_Witness ==
    \E t \in 1..MaxTicks :
        /\ Active(t)
        /\ ticks[t].cur.key \in Keys(queue)
        /\ Get(queue, ticks[t].cur.key).id # ticks[t].cur.id
        /\ Get(queue, ticks[t].cur.key).scheduledFor > clock

\* tick t goes on to a send in this step
Selects(t) ==
    /\ ticks'[t].pc = "await"
    /\ ticks[t].pc = "await" => ticks'[t].cur.id # ticks[t].cur.id

\* C4: a tick that starts picks the first entry that is unsent and due, and picking
\* changes nothing in the queue; when a send returns, the loop goes on to the next
\* entry that is unsent and due, skipping none; an entry that has been marked sent
\* is never picked for a send again
C4_SelectionIdempotentSentNeverResent ==
    [][\A t \in 1..MaxTicks :
          /\ TickStart(t) =>
                /\ queue' = queue
                /\ \E i \in 1..Len(queue) :
                      /\ ticks'[t].cur = queue[i]
                      /\ ~queue[i].sent /\ queue[i].scheduledFor <= clock
                      /\ \A j \in 1..(i - 1) :
                            queue[j].sent \/ queue[j].scheduledFor > clock
          /\ (SendSucceeded(t) \/ SendFailed(t)) =>
                \A i \in ticks[t].next..Len(queue') :
                    (~queue'[i].sent /\ queue'[i].scheduledFor <= ticks[t].now) =>
                        (ticks'[t].pc = "await" /\ i >= ticks'[t].next - 1)
          /\ Selects(t) =>
                /\ objs[ticks'[t].cur.id].sentAt < 0
                /\ objs[ticks'[t].cur.id].ok = 0
                /\ \E i \in 1..Len(queue') : queue'[i] = ticks'[t].cur /\ ~queue'[i].sent]_vars

\* a later tick has passed over an entry that was marked sent before the tick began
C4_Witness ==
    \E t \in 1..MaxTicks : \E i \in 1..Len(queue) :
        /\ Active(t)
        /\ i < ticks[t].next - 1
        /\ queue[i].sent
        /\ objs[queue[i].id].sentAt >= 0
        /\ objs[queue[i].id].sentAt < ticks[t].now
        /\ queue[i].scheduledFor <= ticks[t].now

\* C5: a failed send leaves the queue and the timers as they were and the loop runs
\* on with the remaining entries; the entry stays in the queue, unsent, to be tried
\* again by later ticks until a send of it succeeds
C5_FailedSendStaysForRetry ==
    [][/\ \A t \in 1..MaxTicks :
             SendFailed(t) =>
                 /\ queue' = queue
                 /\ timers' = timers
                 /\ ticks'[t] = RunLoop(queue, ticks[t].next, ticks[t].now)
       /\ \A i \in 1..Len(queue) :
             (objs[queue[i].id].failed /\ ~queue[i].sent) =>
                 queue[i].key \in Keys(queue')]_vars

\* C6: an entry a call-ended event has put in the queue, not sent yet and not
\* overwritten by a later event, is still there to be sent: in the queue, or held by
\* a tick that is sending it.  (An entry outside both is never sent.)
C6_UnsentEntriesStayDeliverable ==
    \A id \in 1..Len(objs) :
        (objs[id].ok = 0 /\ ~Overwritten(id)) => (InQueue(id) \/ InFlight(id))

\* C7: a call-ended event for a call whose keys are in the queue already, pending or
\* sent, leaves exactly one entry under each key, in its place, with this event's
\* body and due time, unsent
C7_LastWriteWins ==
    [][\A p \in PayloadIds :
          (HandleCallEnded(p) /\ Payloads[p].number # Undefined) =>
              LET k1 == Str(Payloads[p].id) \o "-1h"
                  k24 == Str(Payloads[p].id) \o "-24h"
                  old == {k \in {k1, k24} : k \in Keys(queue)}
              IN  /\ Cardinality(PositionsOf(queue', k1)) = 1
                  /\ Cardinality(PositionsOf(queue', k24)) = 1
                  /\ Len(queue') = Len(queue) + 2 - Cardinality(old)
                  /\ \A k \in old : PositionsOf(queue', k) = PositionsOf(queue, k)
                  /\ \A i \in 1..Len(queue) : queue[i].key \notin {k1, k24} => queue'[i] = queue[i]
                  /\ Get(queue', k1).message = getOneHourFollowUp(CallInfo[p])
                  /\ Get(queue', k24).message = get24HourFollowUp(CallInfo[p])
                  /\ Get(queue', k1).scheduledFor = clock + 3600 * 1000
                  /\ Get(queue', k24).scheduledFor = clock + 86400 * 1000
                  /\ ~Get(queue', k1).sent /\ ~Get(queue', k24).sent]_vars

\* the second event of a call has replaced a sent entry and a pending one, with a
\* body that differs from the first event's
C7_Witness ==
    \E i, j \in 1..Len(queue) :
        /\ objs[queue[i].id].replaced = "sent" /\ ~queue[i].sent
        /\ objs[queue[j].id].replaced = "pending" /\ ~queue[j].sent
        /\ queue[i].key = "call-42-1h"
        /\ queue[j].key = "call-42-24h"
        /\ queue[i].message = getOneHourFollowUp(CallInfo[2])
        /\ queue[j].message = get24HourFollowUp(CallInfo[2])

\* C8: the eviction timer removes only entries that are marked sent
C8_EvictionRemovesOnlySent ==
    [][\A tm \in timers :
          EvictFire(tm) => (tm.key \in Keys(queue) => Get(queue, tm.key).sent)]_vars

\* C9: an entry marked sent at time T is no longer in the queue at any time later
\* than T plus one hour
C9_SentEntryEvictedAfterGrace ==
    \A id \in 1..Len(objs) :
        (objs[id].sentAt >= 0 /\ clock > objs[id].sentAt + 60 * 60 * 1000) => ~InQueue(id)

C9_Witness ==
    \E id \in 1..Len(objs) :
        /\ objs[id].sentAt >= 0
        /\ clock > objs[id].sentAt + 60 * 60 * 1000
        /\ ~InQueue(id)
        /\ queue # << >>

\* C10: at most one tick is in flight at any time, no two ticks are sending the
\* same entry, and no entry is sent successfully twice
C10_TicksNotReentrant ==
    /\ Cardinality({t \in 1..MaxTicks : Active(t)}) <= 1
    /\ \A t, u \in 1..MaxTicks :
          (Active(t) /\ Active(u) /\ t # u) => ticks[t].cur.id # ticks[u].cur.id
    /\ \A id \in 1..Len(objs) : objs[id].ok <= 1

\* C11: a rejection of logCall is not fatal: the request is not answered with an
\* error, and with a customer number both follow-ups of the call are enqueued
C11_RecordSinkFailureNonFatal ==
    [][\A p \in PayloadIds :
          LogCallFailed(p) =>
              /\ res'.status # 500 /\ res'.success
              /\ Payloads[p].number # Undefined =>
                    \A k \in {Str(Payloads[p].id) \o "-1h", Str(Payloads[p].id) \o "-24h"} :
                        /\ k \in Keys(queue')
                        /\ ~Get(queue', k).sent
                        /\ Get(queue', k).scheduledFor >= clock + 3600 * 1000]_vars

\* the entries of queue q written by the step that created objects from..to
WrittenBy(q, from, to) == {i \in 1..Len(q) : q[i].id \in from..to}

C13_UnknownEventIgnored ==
    [][\A p \in PayloadIds :
          (/\ Receive(p)
           /\ Payloads[p].route = "/vapi/webhook"
           /\ ~(Payloads[p].type = "status-update" /\ Payloads[p].status = "in-progress")
           /\ ~(Payloads[p].type = "end-of-call-report" \/ Payloads[p].endedAt # Undefined)) =>
              /\ res' = [status |-> 200, success |-> TRUE, message |-> "Event received",
                         scheduledCount |-> 0]
              /\ queue' = queue /\ timers' = timers /\ ticks' = ticks
              /\ pending' = pending /\ oneOff' = oneOff /\ objs' = objs]_vars

\* an unknown event has been answered while entries and timers exist
C13_Witness ==
    /\ res.message = "Event received"
    /\ queue # << >>
    /\ timers # {}

C15_OperatorNotifiedOncePerCallEnded ==
    [][/\ \A p \in PayloadIds :
             (HandleCallEnded(p) /\ notifyHabib # Undefined) =>
                 /\ Cardinality(timers' \ timers) = 1
                 /\ \A tm \in timers' \ timers :
                       tm.kind = "notify" /\ tm.key = notifyHabib /\ tm.at = clock + 1000
                 /\ \A i \in 1..Len(queue') : queue'[i].phone # notifyHabib
       /\ \A tm \in timers :
             NotifyFire(tm) =>
                 /\ timers' = timers \ {tm}
                 /\ oneOff'.notify = oneOff.notify + 1
                 /\ queue' = queue /\ ticks' = ticks]_vars

\* the call of a key, and the keys of the 1-hour tier
CallOfKey(key) ==
    IF SubSeq(key, Len(key) - 2, Len(key)) = "-1h"
    THEN SubSeq(key, 1, Len(key) - 3)
    ELSE SubSeq(key, 1, Len(key) - 4)

IsOneHourKey(key) == SubSeq(key, Len(key) - 2, Len(key)) = "-1h"

\* C16: the 1-hour entry of an event is due before its 24-hour entry, and a 24-hour
\* follow-up of a call is sent only when a 1-hour follow-up of that call has been
\* sent, at that time or before
C16_OneHourBeforeOneDay ==
    /\ \A i, j \in 1..Len(queue) :
          (queue[i].id % 2 = 1 /\ queue[j].id = queue[i].id + 1) =>
              queue[i].scheduledFor < queue[j].scheduledFor
    /\ \A id \in 1..Len(objs) :
          (~IsOneHourKey(objs[id].key) /\ objs[id].sentAt >= 0) =>
              \E j \in 1..Len(objs) :
                  /\ IsOneHourKey(objs[j].key)
                  /\ CallOfKey(objs[j].key) = CallOfKey(objs[id].key)
                  /\ objs[j].sentAt >= 0
                  /\ objs[j].sentAt <= objs[id].sentAt

\* C17: the call-ended event of call-42 ("Hi this is Maria, we run a salon and keep
\* getting no-shows", one user message "we keep getting no-shows", five minutes
\* long) gives name Maria, business category salon, pain points
\* [appointment no-shows], duration 300, and the entries call-42-1h and call-42-24h
\* with bodies that contain "Maria" and "salon"
C17_EndToEndScenario ==
    [][HandleCallEnded(1) =>
          /\ CallInfo[1].name = "Maria"
          /\ CallInfo[1].businessType = "salon"
          /\ CallInfo[1].painPoints = <<"appointment no-shows">>
          /\ CallInfo[1].duration = Num(300)
          /\ \A k \in {"call-42-1h", "call-42-24h"} :
                /\ k \in Keys(queue')
                /\ includes(Get(queue', k).message, "Maria")
                /\ includes(Get(queue', k).message, "salon")]_vars

\* the text of the user turns of the record under extraction
UserText == join(joinUserMessages(raw.messages), " ")

\* the first keyword of the table, in the table's order, that carries the label and
\* occurs in the lower-cased text
FirstKeywordOf(label, text) ==
    Min({k \in 1..Len(painKeywords) :
            painKeywords[k][2] = label /\ includes(text, painKeywords[k][1])})

\* C18: the pain points extracted from the user turns are the labels of exactly the
\* keywords that occur in their text, letters compared without case; no label is
\* listed twice; the labels stand in the order of the keyword table; and
\* "appointments keep getting cancelled" gives both "cancellations" and
\* "appointment scheduling"
C18_PainPointExtraction ==
    insight # << >> =>
        LET painPoints == insight[1].painPoints
            text == toLowerCase(UserText)
        IN  /\ \A k \in 1..Len(painKeywords) :
                  includes(text, painKeywords[k][1]) =>
                      \E i \in 1..Len(painPoints) : painPoints[i] = painKeywords[k][2]
            /\ \A i \in 1..Len(painPoints) :
                  \E k \in 1..Len(painKeywords) :
                      painKeywords[k][2] = painPoints[i] /\ includes(text, painKeywords[k][1])
            /\ \A i, j \in 1..Len(painPoints) : i # j => painPoints[i] # painPoints[j]
            /\ \A i, j \in 1..Len(painPoints) :
                  i < j => FirstKeywordOf(painPoints[i], text) < FirstKeywordOf(painPoints[j], text)
            /\ includes(text, "appointments keep getting cancelled") =>
                  \E i, j \in 1..Len(painPoints) :
                      painPoints[i] = "cancellations" /\ painPoints[j] = "appointment scheduling"

\* two keywords of one label occur, a keyword is split over two turns, and a
\* keyword is written in capitals
C18_Witness ==
    /\ insight # << >>
    /\ includes(toLowerCase(UserText), "no-show") /\ includes(toLowerCase(UserText), "don't show")
    /\ includes(UserText, "CANCEL")
    /\ Len(insight[1].painPoints) >= 4

\* a timestamp that is present and that Date can parse
Parseable(t) == t # Undefined /\ ~DateParse(t).nan

\* C19: the duration is the whole seconds of endedAt - startedAt, rounded down, when
\* both timestamps are present and parseable, and 0 otherwise; it is a number that
\* is not negative
C19_DurationFloorOrZero ==
    insight # << >> =>
        LET d == insight[1].duration IN
        /\ ~d.nan
        /\ d.v >= 0
        /\ IF Parseable(raw.startedAt) /\ Parseable(raw.endedAt)
           THEN d.v = (DateParse(raw.endedAt).v - DateParse(raw.startedAt).v) \div 1000
           ELSE d.v = 0

\* C20: the /queue listing has one item per entry of the queue, in order, with the
\* entry's key, due time and sent flag; the phone it shows is the end of the entry's
\* phone, at most 4 characters of it, and not the whole of a longer number
C20_SnapshotMasksPhone ==
    LET snapshot == queueSnapshot(queue) IN
    /\ Len(snapshot) = Len(queue)
    /\ \A i \in 1..Len(queue) :
          LET shown == snapshot[i].phone
              phone == queue[i].phone
          IN  /\ snapshot[i].id = queue[i].key
              /\ snapshot[i].sent = queue[i].sent
              /\ DateParse(snapshot[i].scheduledFor) = Num(queue[i].scheduledFor)
              /\ Len(shown) <= 4
              /\ Len(shown) <= Len(phone)
              /\ shown = SubSeq(phone, Len(phone) - Len(shown) + 1, Len(phone))
              /\ Len(phone) > 4 => shown # phone

\* the listing shows entries of two calls, sent and unsent
C20_Witness ==
    /\ Len(queueSnapshot(queue)) >= 3
    /\ \E i, j \in 1..Len(queue) :
          /\ queueSnapshot(queue)[i].phone = "4567" /\ queueSnapshot(queue)[i].sent
          /\ queueSnapshot(queue)[j].phone = "4321" /\ ~queueSnapshot(queue)[j].sent

\* C21: when the insight of a call-ended event has a pain point, the body of the
\* 1-hour follow-up the event enqueues mentions the first one
C21_OneHourMentionsFirstPainPoint ==
    [][\A p \in PayloadIds :
          (HandleCallEnded(p) /\ HasPhone(CallInfo[p]) /\ Len(CallInfo[p].painPoints) > 0) =>
              /\ oneHourKey(CallInfo[p]) \in Keys(queue')
              /\ includes(Get(queue', oneHourKey(CallInfo[p])).message,
                          CallInfo[p].painPoints[1])]_vars

CreatedBy(entry, p) ==
    /\ entry.phone = CallInfo[p].phone
    /\ entry.message \in {getOneHourFollowUp(CallInfo[p]), get24HourFollowUp(CallInfo[p])}

\* C23: a call-ended event leaves alone the entries of the events of other calls:
\* when the events p and q come from different customers, and so belong to
\* different calls, the handling of p leaves every entry that q created in its
\* place in the queue as it was, whatever id the two bodies carry
C23_EventTouchesOnlyOwnCall ==
    [][\A p, q \in 1..Len(Payloads) :
          (HandleCallEnded(p) /\ Payloads[p].number # Payloads[q].number) =>
              \A i \in 1..Len(queue) :
                  CreatedBy(queue[i], q) => (i <= Len(queue') /\ queue'[i] = queue[i])]_vars

\* the 24-hour entry that the event of the 1-hour entry e wrote is in the queue q
HasSibling(q, e) ==
    \E j \in 1..Len(q) :
        /\ q[j].id = e.id + 1
        /\ q[j].key = CallOfKey(e.key) \o "-24h"
        /\ q[j].phone = e.phone

\* C24: the two entries of a call-ended event are written in one step of the
\* program, in which no tick and no other handler moves; and in no state is a
\* 1-hour entry in the queue while the 24-hour entry of its event has still to be
\* written: where the 24-hour entry is missing, a send under its key has succeeded
\* and the eviction that follows has removed it
C24_EnqueuesAtomic ==
    /\ [](\A i \in 1..Len(queue) :
             IsOneHourKey(queue[i].key) =>
                 \/ HasSibling(queue, queue[i])
                 \/ \E b \in 1..(queue[i].id + 1) :
                        objs[b].key = CallOfKey(queue[i].key) \o "-24h" /\ objs[b].ok >= 1)
    /\ [][\A i \in 1..Len(queue') :
             (~InQueue(queue'[i].id) /\ IsOneHourKey(queue'[i].key)) =>
                 /\ HasSibling(queue', queue'[i])
                 /\ ~HasSibling(queue, queue'[i])
                 /\ ticks' = ticks
                 /\ pending' \subseteq pending
                 /\ Cardinality(pending \ pending') = 1]_vars

\* an event has written its two entries while a tick was suspended in a send
C24_Witness ==
    \E t \in 1..MaxTicks :
        /\ Active(t)
        /\ \E i \in 1..Len(queue) :
              /\ IsOneHourKey(queue[i].key)
              /\ queue[i].id > ticks[t].cur.id
              /\ HasSibling(queue, queue[i])

====
